---- MODULE Spec2Model ----
(***************************************************************************)
(* humanencoding/encoder.py: binary data <-> dictionary words.             *)
(*                                                                         *)
(* The module is modelled as run by a Python 3 interpreter on `bytes`      *)
(* input: binascii.crc32 returns an unsigned 32-bit int, bytes and str do  *)
(* not concatenate, and struct.pack range-checks its argument.             *)
(*                                                                         *)
(* Representation                                                          *)
(*   bytes          a sequence of integers 0..255                          *)
(*   a Python int   of up to 33 bits: the pair <<q, r>> = <<n div 65536,   *)
(*                  n mod 65536>>, 0 <= r < 65536 (TLC integers are 32 bit)*)
(*   a word (str)   [id |-> n, caps |-> b]: n names the dictionary word    *)
(*                  (n >= WORDLIST_SIZE: a string that is in no wordlist), *)
(*                  caps says whether it is written with capital letters   *)
(*   a str to split a sequence of words and SPACE characters               *)
(*   a wordlist     [src |-> version, len |-> number of entries]; its      *)
(*                  entries are read with ListGet and ListIndex            *)
(*   a call result  [exc, msg, ret, wordlist, cache]: the exception class  *)
(*                  ("none" on return), its message, the returned value,   *)
(*                  the local `wordlist` and the global `_wordlist` after  *)
(***************************************************************************)
EXTENDS Integers, Sequences, FiniteSets, TLC

VARIABLES _wordlist, call, result

vars == <<_wordlist, call, result>>

----------------------------------------------------------------------------
(* Bounds of the model *)

\* longest binary_data given to encode
MaxLen == 2
\* longest word sequence given to decode
MaxWords == 4

----------------------------------------------------------------------------
(* Module constants, encoder.py lines 27-30 *)

DEFAULT_WORDLIST_VERSION == 1
WORDLIST_SIZE == 65536

\* positions of the two marker words in the version 1 wordlist
NullIndex == 24929
CheckIndex == 255

Word(n) == [id |-> n, caps |-> FALSE]

CHECKSUM_WORD == Word(CheckIndex)
PADDING_WORD == Word(NullIndex)

\* a whitespace character inside a str
SPACE == [id |-> -1, caps |-> FALSE]

\* str.lower()
Lower(w) == [w EXCEPT !.caps = FALSE]

\* the same word written with capitals
Upper(w) == [w EXCEPT !.caps = TRUE]

----------------------------------------------------------------------------
(* The wordlist resources humanencoding.wordlist_v<N>                      *)

\* versions asked for: 0 has no module, 1 and 2 hold 65536 words (the same
\* words in another order), 3 holds too few words, 4 holds an empty list
Versions == 0..4

ModuleExists(version) == version \in 1..4

ModuleWords(version) ==
    [src |-> version,
     len |-> CASE version \in {1, 2} -> WORDLIST_SIZE
               [] version = 3 -> 10
               [] OTHER -> 0]

\* the list object `[]`
EmptyList == [src |-> 0, len |-> 0]

\* list[i], 0 <= i < len(list)
ListGet(list, i) ==
    IF list.src = 2 THEN Word((i + 1) % WORDLIST_SIZE) ELSE Word(i)

\* list.index(word), for a word in the list
ListIndex(list, word) ==
    IF list.src = 2 THEN (word.id + WORDLIST_SIZE - 1) % WORDLIST_SIZE ELSE word.id

\* word in list
ListHas(list, word) ==
    /\ ~word.caps
    /\ word.id \in 0..(WORDLIST_SIZE - 1)
    /\ ListIndex(list, word) < list.len

----------------------------------------------------------------------------
(* binascii.crc32 and struct.pack / struct.unpack *)

\* a ^ b on n-bit values (n a power of two), by halves
XorBits[a \in Nat, b \in Nat, n \in 1..16] ==
    IF n = 1 THEN (a + b) % 2
    ELSE XorBits[a % (2 ^ (n \div 2)), b % (2 ^ (n \div 2)), n \div 2]
         + (2 ^ (n \div 2))
           * XorBits[a \div (2 ^ (n \div 2)), b \div (2 ^ (n \div 2)), n \div 2]

\* a ^ b on 16-bit values
Xor16[a \in Nat, b \in Nat] == XorBits[a, b, 16]

\* the 32-bit CRC register, as <<high 16 bits, low 16 bits>>
Register == Nat \X Nat

\* one bit of the reflected CRC-32 (polynomial 0xEDB88320)
CrcShift[c \in Register] ==
    LET hi == c[1] \div 2
        lo == (c[2] \div 2) + (c[1] % 2) * 32768
    IN  IF c[2] % 2 = 1 THEN <<Xor16[hi, 60856], Xor16[lo, 33568]>>
                        ELSE <<hi, lo>>

\* n bit steps (n a power of two), by halves
CrcBits[c \in Register, n \in 1..8] ==
    IF n = 1 THEN CrcShift[c]
    ELSE CrcBits[CrcBits[c, n \div 2], n \div 2]

\* crc_table[n], the table entry of byte n: eight bit steps
CrcTableEntry[n \in 0..255] == CrcBits[<<0, n>>, 8]

\* one byte: crc = crc_table[(crc ^ byte) & 0xFF] ^ (crc >> 8)
CrcStep[c \in Register, byte \in 0..255] ==
    LET t == CrcTableEntry[Xor16[c[2] % 256, byte]]
    IN  <<Xor16[c[1] \div 256, t[1]],
          Xor16[(c[2] \div 256) + (c[1] % 256) * 256, t[2]]>>

\* the register c after bytes b[i..j], i <= j, by halves
CrcRange[c \in Register, b \in Seq(0..255), i \in Nat, j \in Nat] ==
    IF i = j THEN CrcStep[c, b[i]]
    ELSE CrcRange[CrcRange[c, b, i, (i + j) \div 2], b, (i + j) \div 2 + 1, j]

\* crc32(b): an unsigned 32-bit Python int
crc32(b) ==
    LET c == IF Len(b) = 0 THEN <<65535, 65535>>
                           ELSE CrcRange[<<65535, 65535>>, b, 1, Len(b)]
    IN  <<Xor16[c[1], 65535], Xor16[c[2], 65535]>>

\* pack('<H', i) and unpack('<H', b)[0]
_int_to_bytes(i) == <<i % 256, i \div 256>>

_bytes_to_int(b) == b[1] + 256 * b[2]

\* pack('<i', n): struct.error unless -2^31 <= n < 2^31
pack_i(n) ==
    IF n[1] < -32768 \/ n[1] > 32767
    THEN [exc |-> "struct.error", val |-> <<>>]
    ELSE [exc |-> "none",
          val |-> _int_to_bytes(n[2]) \o _int_to_bytes(n[1] % 65536)]

\* unpack('<i', b)[0]: a signed 32-bit Python int
unpack_i(b) ==
    LET hi == _bytes_to_int(<<b[3], b[4]>>)
    IN  <<IF hi >= 32768 THEN hi - 65536 ELSE hi, _bytes_to_int(<<b[1], b[2]>>)>>

----------------------------------------------------------------------------
(* Python sequence helpers *)

\* s[:-1]
DropLast(s) == IF Len(s) = 0 THEN <<>> ELSE SubSeq(s, 1, Len(s) - 1)

\* ' '.join(words)
RECURSIVE Join(_)
Join(words) ==
    IF Len(words) = 0 THEN <<>>
    ELSE IF Len(words) = 1 THEN words
    ELSE <<words[1], SPACE>> \o Join(Tail(words))

\* str.split(), on a str whose words are separated by whitespace
split(s) == SelectSeq(s, LAMBDA c : c # SPACE)

\* an exception leaving a function, and a normal return from it
Raise(exc, msg, wordlist, cache) ==
    [exc |-> exc, msg |-> msg, ret |-> <<>>, wordlist |-> wordlist, cache |-> cache]

Return(ret, wordlist, cache) ==
    [exc |-> "none", msg |-> "", ret |-> ret, wordlist |-> wordlist, cache |-> cache]

Fail(exc, msg) == [exc |-> exc, msg |-> msg, val |-> <<>>]

Ok(val) == [exc |-> "none", msg |-> "", val |-> val]

----------------------------------------------------------------------------
(* encoder.py *)

\* a loader that forgets the `if _wordlist: return _wordlist` shortcut
lazily_load_wordlist_reload(cache, version) ==
    IF ModuleExists(version) /\ ModuleWords(version).len = WORDLIST_SIZE
    THEN Return(ModuleWords(version), ModuleWords(version), ModuleWords(version))
    ELSE Raise("HumanEncodingError", "Invalid word list module", EmptyList, cache)

\* lazily_load_wordlist(version), `cache` being the global _wordlist
lazily_load_wordlist(cache, version) ==
    IF cache.len > 0 THEN Return(cache, cache, cache)
    ELSE IF ~ModuleExists(version)
    THEN Raise("HumanEncodingError", "Invalid word list module", EmptyList, cache)
    ELSE LET words == ModuleWords(version)
         IN  IF words.len = 0
             THEN Raise("HumanEncodingError", "Word list module has no words attribute",
                        EmptyList, cache)
             ELSE IF words.len # WORDLIST_SIZE
             THEN Raise("HumanEncodingError", "Word list is in invalid size",
                        EmptyList, cache)
             ELSE Return(words, words, words)

\* the except branch formats the message with the unbound name `word`
_chunk_to_word(chunk, wordlist) ==
    IF _bytes_to_int(chunk) < wordlist.len
    THEN Ok(ListGet(wordlist, _bytes_to_int(chunk)))
    ELSE Fail("NameError", "name 'word' is not defined")

\* a lookup that maps a word it does not find to index 0 instead of raising
_word_to_chunk_lenient(word, wordlist) ==
    IF ListHas(wordlist, word)
    THEN Ok(_int_to_bytes(ListIndex(wordlist, word)))
    ELSE Ok(_int_to_bytes(0))

_word_to_chunk(word, wordlist) ==
    IF ListHas(wordlist, word)
    THEN Ok(_int_to_bytes(ListIndex(wordlist, word)))
    ELSE Fail("HumanEncodingError", "Invalid word")

\* the loop of encode: the words of binary_data[i:], i a 0-based even offset
RECURSIVE encode_chunks(_, _, _)
encode_chunks(binary_data, i, wordlist) ==
    IF i >= Len(binary_data) THEN Ok(<<>>)
    ELSE LET w == _chunk_to_word(SubSeq(binary_data, i + 1, i + 2), wordlist)
             rest == encode_chunks(binary_data, i + 2, wordlist)
         IN  IF w.exc # "none" THEN w
             ELSE IF rest.exc # "none" THEN rest
             ELSE Ok(<<w.val>> \o rest.val)

\* the checksum branch of encode: the three words appended
encode_checksum(binary_data, padded, wordlist) ==
    LET checksum_int == crc32(IF padded THEN DropLast(binary_data) ELSE binary_data)
        checksum_bytes == pack_i(checksum_int)
        lo == _chunk_to_word(SubSeq(checksum_bytes.val, 1, 2), wordlist)
        hi == _chunk_to_word(SubSeq(checksum_bytes.val, 3, 4), wordlist)
    IN  IF checksum_bytes.exc # "none"
        THEN Fail("struct.error", "'i' format requires -2147483648 <= number <= 2147483647")
        ELSE IF lo.exc # "none" THEN lo
        ELSE IF hi.exc # "none" THEN hi
        ELSE Ok(<<CHECKSUM_WORD, lo.val, hi.val>>)

\* the list encode accumulates, binary_data being already padded if `padded`
encoded_output(binary_data, padded, checksum, wordlist) ==
    LET data_words == encode_chunks(binary_data, 0, wordlist)
        padding == IF padded THEN <<PADDING_WORD>> ELSE <<>>
        check == IF checksum THEN encode_checksum(binary_data, padded, wordlist)
                             ELSE Ok(<<>>)
    IN  IF data_words.exc # "none" THEN data_words
        ELSE IF check.exc # "none" THEN check
        ELSE Ok(data_words.val \o padding \o check.val)

\* encode(binary_data, version, checksum, return_string) on bytes:
\* bytes += '\0' raises TypeError, and the return statement reads the
\* unbound name `string`
encode(cache, binary_data, version, checksum, return_string) ==
    LET ld == lazily_load_wordlist(cache, version)
        wordlist == ld.ret
        padded == Len(binary_data) % 2 = 1
        out == encoded_output(binary_data, padded, checksum, wordlist)
    IN  IF ld.exc # "none" THEN ld
        ELSE IF padded
        THEN Raise("TypeError", "can't concat str to bytes", wordlist, ld.cache)
        ELSE IF out.exc # "none" THEN Raise(out.exc, out.msg, wordlist, ld.cache)
        ELSE Raise("NameError", "name 'string' is not defined", wordlist, ld.cache)

\* the loop of decode: the bytes of words[i..], i a 1-based index
RECURSIVE decode_words(_, _, _)
decode_words(words, i, wordlist) ==
    IF i > Len(words) THEN Ok(<<>>)
    ELSE LET c == _word_to_chunk(words[i], wordlist)
             rest == decode_words(words, i + 1, wordlist)
         IN  IF c.exc # "none" THEN c
             ELSE IF rest.exc # "none" THEN rest
             ELSE Ok(c.val \o rest.val)

\* the checksum branch of decode
decode_checksum(checksum_words, output, wordlist) ==
    LET lo == _word_to_chunk(checksum_words[1], wordlist)
        hi == _word_to_chunk(checksum_words[2], wordlist)
        checksum_unpacked == unpack_i(lo.val \o hi.val)
    IN  IF lo.exc # "none" THEN lo
        ELSE IF hi.exc # "none" THEN hi
        ELSE IF checksum_unpacked # crc32(output)
        THEN Fail("HumanEncodingError", "Invalid CRC32 checksum")
        ELSE Ok(output)

\* decode(words, version); words is [isstr |-> BOOLEAN, items |-> sequence]
decode(cache, words, version) ==
    LET ld == lazily_load_wordlist(cache, version)
        wordlist == ld.ret
        tokens == IF words.isstr THEN split(words.items) ELSE words.items
        lowered == [i \in 1..Len(tokens) |-> Lower(tokens[i])]
        has_checksum == /\ Len(lowered) > 3
                        /\ lowered[Len(lowered) - 2] = CHECKSUM_WORD
        checksum_words ==
            IF has_checksum THEN SubSeq(lowered, Len(lowered) - 1, Len(lowered))
                            ELSE <<>>
        stripped == IF has_checksum THEN SubSeq(lowered, 1, Len(lowered) - 3)
                                    ELSE lowered
        is_padded == stripped[Len(stripped)] = PADDING_WORD
        data_words == IF is_padded THEN DropLast(stripped) ELSE stripped
        chunks == decode_words(data_words, 1, wordlist)
        output == IF is_padded THEN DropLast(chunks.val) ELSE chunks.val
        verified == IF checksum_words # <<>>
                    THEN decode_checksum(checksum_words, output, wordlist)
                    ELSE Ok(output)
    IN  IF ld.exc # "none" THEN ld
        ELSE IF Len(stripped) = 0
        THEN Raise("IndexError", "list index out of range", wordlist, ld.cache)
        ELSE IF chunks.exc # "none" THEN Raise(chunks.exc, chunks.msg, wordlist, ld.cache)
        ELSE IF verified.exc # "none"
        THEN Raise(verified.exc, verified.msg, wordlist, ld.cache)
        ELSE Return(output, wordlist, ld.cache)

\* the parameter names of encode and decode
EncodeParams == {"binary_data", "version", "checksum", "return_string"}

DecodeParams == {"words", "version"}

\* a call passing keyword argument `keyword`: an unknown keyword raises
\* TypeError before the body runs
call_with_keyword(cache, params, keyword, body) ==
    IF keyword \notin params
    THEN Raise("TypeError", "got an unexpected keyword argument", EmptyList, cache)
    ELSE body

----------------------------------------------------------------------------
(* The inputs of the calls *)

ByteSet == {0, 97, 255}

BinaryData == UNION {[1..n -> ByteSet] : n \in 0..MaxLen}

\* a string that is in no wordlist
UnknownWord == Word(WORDLIST_SIZE)

WordSet ==
    {Word(0), Word(WORDLIST_SIZE - 1), PADDING_WORD, CHECKSUM_WORD,
     Upper(CHECKSUM_WORD), UnknownWord}

WordSeqs == UNION {[1..n -> WordSet] : n \in 0..MaxWords}

\* the `words` argument of decode: a list of words, or one str holding them
WordsArgs ==
    {[isstr |-> FALSE, items |-> ws] : ws \in WordSeqs}
        \cup {[isstr |-> TRUE, items |-> Join(ws)] : ws \in WordSeqs}

\* the `words` argument of the size-limited decode: lists of data words
LimitedWordsArgs ==
    {[isstr |-> FALSE, items |-> ws] :
        ws \in UNION {[1..n -> {Word(0), Word(WORDLIST_SIZE - 1)}] : n \in 0..MaxWords}}

----------------------------------------------------------------------------
(* The caller: one synchronous call at a time *)

Idle ==
    [op |-> "idle", version |-> 0, binary_data |-> <<>>, checksum |-> FALSE,
     return_string |-> FALSE, words |-> [isstr |-> FALSE, items |-> <<>>],
     keyword |-> "", limit |-> 0]

NoResult == Return(<<>>, EmptyList, EmptyList)

Init ==
    /\ _wordlist = EmptyList
    /\ call = Idle
    /\ result = NoResult

\* humanencoding.encoder.lazily_load_wordlist(version=version)
Load ==
    /\ call.op = "idle"
    /\ \E version \in Versions :
          /\ call' = [Idle EXCEPT !.op = "load", !.version = version]
          /\ result' = lazily_load_wordlist(_wordlist, version)
    /\ _wordlist' = result'.cache

\* humanencoding.encode(binary_data, version, checksum, return_string)
Encode ==
    /\ call.op = "idle"
    /\ \E binary_data \in BinaryData, version \in Versions,
          checksum \in BOOLEAN, return_string \in BOOLEAN :
          /\ call' = [Idle EXCEPT !.op = "encode", !.version = version,
                                  !.binary_data = binary_data,
                                  !.checksum = checksum,
                                  !.return_string = return_string]
          /\ result' = encode(_wordlist, binary_data, version, checksum,
                              return_string)
    /\ _wordlist' = result'.cache

\* humanencoding.decode(words, version)
Decode ==
    /\ call.op = "idle"
    /\ \E words \in WordsArgs, version \in Versions :
          /\ call' = [Idle EXCEPT !.op = "decode", !.version = version,
                                  !.words = words]
          /\ result' = decode(_wordlist, words, version)
    /\ _wordlist' = result'.cache

\* humanencoding.encode(binary_data, max_bytes=max_bytes)
EncodeMaxBytes ==
    /\ call.op = "idle"
    /\ \E binary_data \in BinaryData, max_bytes \in 0..MaxLen :
          /\ call' = [Idle EXCEPT !.op = "encode",
                                  !.version = DEFAULT_WORDLIST_VERSION,
                                  !.binary_data = binary_data,
                                  !.return_string = TRUE,
                                  !.keyword = "max_bytes", !.limit = max_bytes]
          /\ result' = call_with_keyword(_wordlist, EncodeParams, "max_bytes",
                           encode(_wordlist, binary_data,
                                  DEFAULT_WORDLIST_VERSION, FALSE, TRUE))
    /\ _wordlist' = result'.cache

\* humanencoding.decode(words, max_words=max_words)
DecodeMaxWords ==
    /\ call.op = "idle"
    /\ \E words \in LimitedWordsArgs, max_words \in 0..MaxWords :
          /\ call' = [Idle EXCEPT !.op = "decode",
                                  !.version = DEFAULT_WORDLIST_VERSION,
                                  !.words = words,
                                  !.keyword = "max_words", !.limit = max_words]
          /\ result' = call_with_keyword(_wordlist, DecodeParams, "max_words",
                           decode(_wordlist, words, DEFAULT_WORDLIST_VERSION))
    /\ _wordlist' = result'.cache

\* the caller has taken the result (or caught the exception) and goes on
Finish ==
    /\ call.op # "idle"
    /\ call' = Idle
    /\ result' = NoResult
    /\ UNCHANGED _wordlist

Next ==
    \/ Load
    \/ Encode
    \/ Decode
    \/ EncodeMaxBytes
    \/ DecodeMaxWords
    \/ Finish

Spec == Init /\ [][Next]_vars

----------------------------------------------------------------------------
(* Vocabulary of the properties *)

\* the call got a wordlist from lazily_load_wordlist
HasWordlist == result.wordlist.len > 0

\* a plain call of encode / decode, without a size-limit keyword
PlainEncode == call.op = "encode" /\ call.keyword = ""

PlainDecode == call.op = "decode" /\ call.keyword = ""

\* the words handed to decode, split and lowercased
CallTokens ==
    LET tokens == IF call.words.isstr THEN split(call.words.items)
                                      ELSE call.words.items
    IN  [i \in 1..Len(tokens) |-> Lower(tokens[i])]

\* the token stream the specification lays out for data b: the data words of
\* b (zero-padded to even length), 'null' if b is odd, and with a checksum
\* 'check' and the words of bytes 0-1 and 2-3 of the little-endian CRC-32
ExpectedLayout(b, checksum, wordlist) ==
    LET padded == IF Len(b) % 2 = 1 THEN b \o <<0>> ELSE b
        crc == crc32(b)
    IN  [i \in 1..(Len(padded) \div 2) |->
            ListGet(wordlist, padded[2 * i - 1] + 256 * padded[2 * i])]
        \o (IF Len(b) % 2 = 1 THEN <<PADDING_WORD>> ELSE <<>>)
        \o (IF checksum
            THEN <<CHECKSUM_WORD, ListGet(wordlist, crc[2]), ListGet(wordlist, crc[1])>>
            ELSE <<>>)

\* t is s with the word at position i replaced by another word of the list
MutatedAt(s, t, i, wordlist) ==
    /\ Len(t) = Len(s)
    /\ i \in 1..Len(s)
    /\ t[i] # s[i]
    /\ ListHas(wordlist, t[i])
    /\ \A j \in 1..Len(s) : j # i => t[j] = s[j]

----------------------------------------------------------------------------
(* C1 *)

\* C1: round trip. Every encode call that got a wordlist returns, and
\* decoding what it returned (same version) gives back exactly the data.
C1_RoundTrip ==
    (PlainEncode /\ HasWordlist) =>
        /\ result.exc = "none"
        /\ LET back == decode(_wordlist,
                              [isstr |-> call.return_string, items |-> result.ret],
                              call.version)
           IN  back.exc = "none" /\ back.ret = call.binary_data

(* C2 *)

\* C2: checksum detection. Decoding a stream that is the checksummed
\* encoding of some data with exactly one non-marker word replaced by another
\* word of the wordlist fails with the checksum-mismatch error.
C2_ChecksumDetection ==
    (PlainDecode /\ HasWordlist) =>
        \A b \in BinaryData :
            LET stream == encoded_output(b, FALSE, TRUE, result.wordlist)
                n == Len(stream.val)
            IN  (/\ Len(b) % 2 = 0
                 /\ stream.exc = "none"
                 /\ \E i \in (1..(n - 3)) \cup {n - 1, n} :
                       MutatedAt(stream.val, CallTokens, i, result.wordlist))
                => /\ result.exc = "HumanEncodingError"
                   /\ result.msg = "Invalid CRC32 checksum"
                   /\ result.ret = <<>>

(* C3 *)

\* C3: decoding an empty input, or one that is empty once the padding marker
\* (and a matching checksum suffix of empty data) is stripped, returns the
\* empty byte sequence without error.
C3_EmptyInputDecodes ==
    (/\ PlainDecode
     /\ HasWordlist
     /\ \/ CallTokens = <<>>
        \/ CallTokens = <<PADDING_WORD>>
        \/ CallTokens = <<PADDING_WORD, CHECKSUM_WORD,
                          ListGet(result.wordlist, 0), ListGet(result.wordlist, 0)>>)
    => result.exc = "none" /\ result.ret = <<>>

(* C4 *)

\* C4: a load of a version that has no wordlist module, or whose list does
\* not hold exactly 65536 words, fails with HumanEncodingError in every state
\* of the cache.
C4_InvalidVersionRejected ==
    (/\ call.op = "load"
     /\ \/ ~ModuleExists(call.version)
        \/ ModuleWords(call.version).len # WORDLIST_SIZE)
    => result.exc = "HumanEncodingError"

(* C5 *)

\* C5: encode with max_bytes below len(data), and decode with max_words
\* below the number of words, fail with HumanEncodingError and no output.
C5_SizeLimitRejected ==
    (\/ call.keyword = "max_bytes" /\ call.limit < Len(call.binary_data)
     \/ call.keyword = "max_words" /\ call.limit < Len(CallTokens))
    => result.exc = "HumanEncodingError" /\ result.ret = <<>>

(* C6 *)

\* C6: a decode that got a wordlist and whose input holds a word that, once
\* lowercased, is not in that wordlist fails with HumanEncodingError "Invalid
\* word" and returns nothing, in data and in checksum positions alike; when
\* every lowercased word is in the wordlist the error is never "Invalid word".
C6_UnknownWordRejected ==
    (PlainDecode /\ HasWordlist) =>
        /\ (\E i \in 1..Len(CallTokens) : ~ListHas(result.wordlist, CallTokens[i]))
           => /\ result.exc = "HumanEncodingError"
              /\ result.msg = "Invalid word"
              /\ result.ret = <<>>
        /\ (\A i \in 1..Len(CallTokens) : ListHas(result.wordlist, CallTokens[i]))
           => result.msg # "Invalid word"

\* an unknown word in a checksum position, after a capitalised checksum
\* marker and a known data word, was rejected
C6_Witness ==
    /\ PlainDecode
    /\ HasWordlist
    /\ ~call.words.isstr
    /\ Len(call.words.items) = 4
    /\ call.words.items[1] = Word(0)
    /\ call.words.items[2] = Upper(CHECKSUM_WORD)
    /\ call.words.items[3] = UnknownWord
    /\ call.words.items[4] = Word(0)
    /\ result.msg = "Invalid word"

(* C7 *)

\* C7: determinism and version keying. An encode call gives what the same
\* call gives in a fresh process, whatever ran before, and the wordlist a
\* call works with is the one of the version it names.
C7_DeterministicVersionKeyed ==
    /\ PlainEncode =>
          LET fresh == encode(EmptyList, call.binary_data, call.version,
                              call.checksum, call.return_string)
          IN  /\ result.exc = fresh.exc
              /\ result.msg = fresh.msg
              /\ result.ret = fresh.ret
    /\ (call.op # "idle" /\ HasWordlist)
          => result.wordlist = ModuleWords(call.version)

(* C8 *)

\* C8: encode returns the specified layout: data words, 'null' when the
\* length is odd, 'check' and the two CRC-32 words when a checksum is asked
\* for; as a list, or as the same words joined into one string.
C8_EncodeLayout ==
    (PlainEncode /\ HasWordlist) =>
        /\ result.exc = "none"
        /\ LET layout == ExpectedLayout(call.binary_data, call.checksum,
                                        result.wordlist)
           IN  result.ret = IF call.return_string THEN Join(layout) ELSE layout

(* C9 *)

\* C9: checksum packing agreement. Encode packs every CRC-32 value without a
\* struct error, and decode never rejects the correctly laid out
\* checksummed stream of any data with a checksum mismatch.
C9_ChecksumPackingAgrees ==
    /\ (PlainEncode /\ HasWordlist /\ call.checksum)
          => result.exc # "struct.error"
    /\ (PlainDecode /\ HasWordlist)
          => \A b \in BinaryData :
                CallTokens = ExpectedLayout(b, TRUE, result.wordlist)
                   => result.msg # "Invalid CRC32 checksum"

(* C10 *)

\* C10: the wordlist cache is write-once. It starts empty; a failed load
\* leaves it empty; a load of a valid version on an empty cache succeeds and
\* fills it with that version's 65536 words; once filled, no call changes it.
C10_CacheWriteOnce ==
    /\ _wordlist = EmptyList
    /\ [][/\ _wordlist.len > 0 => _wordlist' = _wordlist
          /\ _wordlist' # _wordlist =>
                /\ _wordlist = EmptyList
                /\ _wordlist'.len = WORDLIST_SIZE
                /\ _wordlist' = ModuleWords(call'.version)
          /\ (call'.op = "load" /\ result'.exc # "none") =>
                _wordlist = EmptyList /\ _wordlist' = EmptyList
          /\ (/\ _wordlist = EmptyList
              /\ call'.op = "load"
              /\ ModuleExists(call'.version)
              /\ ModuleWords(call'.version).len = WORDLIST_SIZE)
             => /\ result'.exc = "none"
                /\ result'.ret = ModuleWords(call'.version)
                /\ _wordlist' = ModuleWords(call'.version)]_vars

\* a filled cache has survived a later call that names another version
C10_Witness ==
    /\ _wordlist.len = WORDLIST_SIZE
    /\ call.op \in {"load", "encode", "decode"}
    /\ ModuleWords(call.version) # _wordlist

====
